---- MODULE Spec2Model ----
(***************************************************************************)
(* Bech32 / segwit-address codec of src/__init__.py.                       *)
(*                                                                         *)
(* A Python str is modelled as a sequence of one-character strings, a      *)
(* Python list of ints as a sequence of integers.  A Python value that may *)
(* be None is a tagged record: None, or Some(v).  An uncaught exception is *)
(* the record Raise(name).                                                 *)
(***************************************************************************)
EXTENDS Integers, Sequences, FiniteSets, TLC

(***************************************************************************)
(* Python values                                                           *)
(***************************************************************************)
None == [tag |-> "None"]

Some(v) == [tag |-> "ok", val |-> v]

Raise(e) == [tag |-> "raise", exc |-> e]

(***************************************************************************)
(* Python's integer operators <<, >>, &, |, ^ on the non-negative integers *)
(* the codec computes with.  The bitwise operators work on base-32 digits, *)
(* whose results are tabulated bit by bit.                                 *)
(***************************************************************************)
\* a << n
Shl(a, n) == a * 2^n

\* a >> n
Shr(a, n) == a \div 2^n

\* a & b, a | b and a ^ b, one bit at a time
RECURSIVE AndBits(_, _)
AndBits(a, b) ==
    IF a = 0 \/ b = 0 THEN 0
    ELSE (IF a % 2 = 1 /\ b % 2 = 1 THEN 1 ELSE 0) + 2 * AndBits(a \div 2, b \div 2)

RECURSIVE OrBits(_, _)
OrBits(a, b) ==
    IF a = 0 THEN b
    ELSE IF b = 0 THEN a
    ELSE (IF a % 2 = 1 \/ b % 2 = 1 THEN 1 ELSE 0) + 2 * OrBits(a \div 2, b \div 2)

RECURSIVE XorBits(_, _)
XorBits(a, b) ==
    IF a = 0 THEN b
    ELSE IF b = 0 THEN a
    ELSE (IF a % 2 = b % 2 THEN 0 ELSE 1) + 2 * XorBits(a \div 2, b \div 2)

And32 == [a \in 0..31 |-> [b \in 0..31 |-> AndBits(a, b)]]

Or32 == [a \in 0..31 |-> [b \in 0..31 |-> OrBits(a, b)]]

Xor32 == [a \in 0..31 |-> [b \in 0..31 |-> XorBits(a, b)]]

\* a & b
RECURSIVE BitAnd(_, _)
BitAnd(a, b) ==
    IF a = 0 \/ b = 0 THEN 0
    ELSE And32[a % 32][b % 32] + 32 * BitAnd(a \div 32, b \div 32)

\* a | b
RECURSIVE BitOr(_, _)
BitOr(a, b) ==
    IF a = 0 THEN b
    ELSE IF b = 0 THEN a
    ELSE Or32[a % 32][b % 32] + 32 * BitOr(a \div 32, b \div 32)

\* a ^ b
RECURSIVE BitXor(_, _)
BitXor(a, b) ==
    IF a = 0 THEN b
    ELSE IF b = 0 THEN a
    ELSE Xor32[a % 32][b % 32] + 32 * BitXor(a \div 32, b \div 32)

(***************************************************************************)
(* Characters: ord(), str.lower(), str.upper()                             *)
(***************************************************************************)
\* The characters with code points 32..126, in code-point order; "DEL" stands
\* for the character with code point 127 and "GRAVE" for the backquote (96).
Ascii ==
    << " ", "!", "\"", "#", "$", "%", "&", "'", "(", ")", "*", "+", ",", "-", ".", "/",
       "0", "1", "2", "3", "4", "5", "6", "7", "8", "9", ":", ";", "<", "=", ">", "?",
       "@", "A", "B", "C", "D", "E", "F", "G", "H", "I", "J", "K", "L", "M", "N", "O",
       "P", "Q", "R", "S", "T", "U", "V", "W", "X", "Y", "Z", "[", "\\", "]", "^", "_",
       "GRAVE", "a", "b", "c", "d", "e", "f", "g", "h", "i", "j", "k", "l", "m", "n", "o",
       "p", "q", "r", "s", "t", "u", "v", "w", "x", "y", "z", "{", "|", "}", "~", "DEL" >>

Chars == {Ascii[i] : i \in 1..Len(Ascii)}

OrdTable == [c \in Chars |-> 31 + (CHOOSE i \in 1..Len(Ascii) : Ascii[i] = c)]

\* ord(x)
Ord(x) == OrdTable[x]

\* chr(n), for n in 32..127
Chr(n) == Ascii[n - 31]

LowerChar(x) == IF Ord(x) >= 65 /\ Ord(x) <= 90 THEN Chr(Ord(x) + 32) ELSE x

UpperChar(x) == IF Ord(x) >= 97 /\ Ord(x) <= 122 THEN Chr(Ord(x) - 32) ELSE x

\* s.lower()
Lower(s) == [i \in 1..Len(s) |-> LowerChar(s[i])]

\* s.upper()
Upper(s) == [i \in 1..Len(s) |-> UpperChar(s[i])]

(***************************************************************************)
(* Checksum engine                                                         *)
(***************************************************************************)
CHARSET ==
    << "q", "p", "z", "r", "y", "9", "x", "8", "g", "f", "2", "t", "v", "d", "w", "0",
       "s", "3", "j", "n", "5", "4", "k", "h", "c", "e", "6", "m", "u", "a", "7", "l" >>

\* 0x3b6a57b2, 0x26508e6d, 0x1ea119fa, 0x3d4233dd, 0x2a1462b3
generator == << 996825010, 642813549, 513874426, 1027748829, 705979059 >>

\* 0x1ffffff
ChkMask == 33554431

\* The inner loop of bech32_polymod, from i on: chk ^= generator[i] for every
\* bit i of top that is set.
RECURSIVE PolymodGen(_, _, _)
PolymodGen(chk, top, i) ==
    IF i = 5 THEN chk
    ELSE PolymodGen(BitXor(chk, IF BitAnd(Shr(top, i), 1) # 0 THEN generator[i + 1] ELSE 0),
                    top, i + 1)

\* PolymodStep with the accumulator masked to 26 bits instead of 25
PolymodStepWideMask(chk, value) ==
    PolymodGen(BitXor(Shl(BitAnd(chk, 2 * ChkMask + 1), 5), value), Shr(chk, 25), 0)

\* One iteration of the outer loop of bech32_polymod: the accumulator after
\* `value` is fed to accumulator `chk`.
PolymodStep(chk, value) ==
    PolymodGen(BitXor(Shl(BitAnd(chk, ChkMask), 5), value), Shr(chk, 25), 0)

\* range[chk, lo, hi] is the accumulator after the outer loop of bech32_polymod
\* has run over values[lo..hi], in order, from accumulator chk.  The range is
\* walked in two halves, first lo..mid and then mid+1..hi, and the first half
\* is evaluated before the second starts, which keeps the evaluation depth
\* logarithmic in the length.
bech32_polymod(values) ==
    LET range[chk \in Nat, lo \in Nat, hi \in Nat] ==
            IF lo > hi THEN chk
            ELSE IF lo = hi THEN PolymodStep(chk, values[lo])
            ELSE range[range[chk, lo, (lo + hi) \div 2], (lo + hi) \div 2 + 1, hi]
    IN  range[1, 1, Len(values)]

bech32_hrp_expand(hrp) ==
    [i \in 1..Len(hrp) |-> Shr(Ord(hrp[i]), 5)] \o << 0 >>
        \o [i \in 1..Len(hrp) |-> BitAnd(Ord(hrp[i]), 31)]

\* bech32_verify_checksum comparing the residue with 0 the wrong way round
bech32_verify_checksumNonZero(hrp, data) ==
    bech32_polymod(bech32_hrp_expand(hrp) \o data) # 0

bech32_verify_checksum(hrp, data) ==
    bech32_polymod(bech32_hrp_expand(hrp) \o data) = 1

\* bech32_create_checksum slicing the symbols least-significant first
bech32_create_checksumLsbFirst(hrp, data) ==
    LET values  == bech32_hrp_expand(hrp) \o data
        polymod == BitXor(bech32_polymod(values \o << 0, 0, 0, 0, 0, 0 >>), 1)
    IN  [k \in 1..6 |-> BitAnd(Shr(polymod, 5 * (k - 1)), 31)]

bech32_create_checksum(hrp, data) ==
    LET values  == bech32_hrp_expand(hrp) \o data
        polymod == BitXor(bech32_polymod(values \o << 0, 0, 0, 0, 0, 0 >>), 1)
    IN  [k \in 1..6 |-> BitAnd(Shr(polymod, 5 * (5 - (k - 1))), 31)]

(***************************************************************************)
(* Bit converter                                                           *)
(***************************************************************************)
\* The inner while loop of convertbits; st = [acc, bits, ret] holds the locals.
RECURSIVE ConvertEmit(_, _)
ConvertEmit(st, tobits) ==
    IF st.bits >= tobits
    THEN ConvertEmit([acc  |-> st.acc,
                      bits |-> st.bits - tobits,
                      ret  |-> Append(st.ret, BitAnd(Shr(st.acc, st.bits - tobits),
                                                     Shl(1, tobits) - 1))],
                     tobits)
    ELSE st

\* ConvertValue with max_acc one bit short
ConvertValueNarrowAcc(st, value, frombits, tobits) ==
    IF value < 0 \/ Shr(value, frombits) # 0 THEN None
    ELSE ConvertEmit([acc  |-> BitAnd(BitOr(Shl(st.acc, frombits), value),
                                      Shl(1, frombits + tobits - 2) - 1),
                      bits |-> st.bits + frombits,
                      ret  |-> st.ret],
                     tobits)

\* One iteration of the for loop of convertbits: None when it returns None.
ConvertValue(st, value, frombits, tobits) ==
    IF value < 0 \/ Shr(value, frombits) # 0 THEN None
    ELSE ConvertEmit([acc  |-> BitAnd(BitOr(Shl(st.acc, frombits), value),
                                      Shl(1, frombits + tobits - 1) - 1),
                      bits |-> st.bits + frombits,
                      ret  |-> st.ret],
                     tobits)

\* The for loop of convertbits over data[lo..hi], in order (walked in two
\* halves, as PolymodRange); None once an iteration has returned None.
RECURSIVE ConvertRange(_, _, _, _, _, _)
ConvertRange(st, data, lo, hi, frombits, tobits) ==
    IF st = None \/ lo > hi THEN st
    ELSE IF lo = hi THEN ConvertValue(st, data[lo], frombits, tobits)
    ELSE ConvertRange(ConvertRange(st, data, lo, (lo + hi) \div 2, frombits, tobits),
                      data, (lo + hi) \div 2 + 1, hi, frombits, tobits)

\* ConvertTail that drops the leftover bits instead of padding them
ConvertTailNoPad(st, frombits, tobits, pad) ==
    LET maxv == Shl(1, tobits) - 1
    IN  IF pad
        THEN Some(st.ret)
        ELSE IF st.bits >= frombits \/ BitAnd(Shl(st.acc, tobits - st.bits), maxv) # 0
             THEN None
             ELSE Some(st.ret)

\* ConvertTail that does not look at the leftover bits' value
ConvertTailAnyPadding(st, frombits, tobits, pad) ==
    LET maxv == Shl(1, tobits) - 1
    IN  IF pad
        THEN IF st.bits # 0
             THEN Some(Append(st.ret, BitAnd(Shl(st.acc, tobits - st.bits), maxv)))
             ELSE Some(st.ret)
        ELSE IF st.bits >= frombits
             THEN None
             ELSE Some(st.ret)

\* The part of convertbits after the for loop.
ConvertTail(st, frombits, tobits, pad) ==
    LET maxv == Shl(1, tobits) - 1
    IN  IF pad
        THEN IF st.bits # 0
             THEN Some(Append(st.ret, BitAnd(Shl(st.acc, tobits - st.bits), maxv)))
             ELSE Some(st.ret)
        ELSE IF st.bits >= frombits \/ BitAnd(Shl(st.acc, tobits - st.bits), maxv) # 0
             THEN None
             ELSE Some(st.ret)

convertbits(data, frombits, tobits, pad) ==
    LET st == ConvertRange([acc |-> 0, bits |-> 0, ret |-> << >>],
                           data, 1, Len(data), frombits, tobits)
    IN  IF st = None THEN None ELSE ConvertTail(st, frombits, tobits, pad)

(***************************************************************************)
(* Bech32 codec                                                            *)
(***************************************************************************)
\* (None, None)
NonePair == << None, None >>

\* CHARSET[d]: Python indexes from the end for -32 <= d < 0 and raises
\* IndexError outside -32..31.
CharsetIndexOk(d) == d >= -32 /\ d <= 31

CharsetAt(d) == IF d >= 0 THEN CHARSET[d + 1] ELSE CHARSET[32 + d + 1]

\* CHARSET.find(x), for x in CHARSET
CharsetFind(x) == (CHOOSE k \in 1..Len(CHARSET) : CHARSET[k] = x) - 1

InCharset(x) == \E k \in 1..Len(CHARSET) : CHARSET[k] = x

\* s.rfind(c): the 0-based index of the last c in s, -1 when there is none
RFind(s, c) ==
    IF \E i \in 1..Len(s) : s[i] = c
    THEN (CHOOSE i \in 1..Len(s) : s[i] = c /\ \A j \in (i + 1)..Len(s) : s[j] # c) - 1
    ELSE -1

\* Some(str), or Raise("IndexError") where the join indexes CHARSET out of range
bech32_encode(hrp, data) ==
    LET combined == data \o bech32_create_checksum(hrp, data)
    IN  IF \E k \in 1..Len(combined) : ~CharsetIndexOk(combined[k])
        THEN Raise("IndexError")
        ELSE Some(hrp \o << "1" >> \o [k \in 1..Len(combined) |-> CharsetAt(combined[k])])

\* any(ord(x) < 33 or ord(x) > 126 for x in bech)
HasBadChar(bech) == \E i \in 1..Len(bech) : Ord(bech[i]) < 33 \/ Ord(bech[i]) > 126

\* The mixed-case test left out
MixedCaseIgnored(bech) == FALSE

\* bech.lower() != bech and bech.upper() != bech
MixedCase(bech) == Lower(bech) # bech /\ Upper(bech) # bech

\* BadPos without the upper limit on pos
BadPosNoLimit(pos, n) == pos < 1 \/ pos + 7 > n

\* pos < 1 or pos > 83 or pos + 7 > len(bech)
BadPos(pos, n) == pos < 1 \/ pos > 83 \/ pos + 7 > n

\* (None, None), or (Some(hrp), Some(data))
bech32_decode(bech) ==
    IF HasBadChar(bech) \/ MixedCase(bech)
    THEN NonePair
    ELSE LET lowered == Lower(bech)
             pos     == RFind(lowered, "1")
         IN  IF BadPos(pos, Len(lowered)) THEN NonePair
             ELSE IF ~(\A i \in (pos + 2)..Len(lowered) : InCharset(lowered[i])) THEN NonePair
             ELSE LET hrp  == SubSeq(lowered, 1, pos)
                      data == [k \in 1..(Len(lowered) - pos - 1) |->
                                  CharsetFind(lowered[pos + 1 + k])]
                  IN  IF ~bech32_verify_checksum(hrp, data) THEN NonePair
                      ELSE << Some(hrp), Some(SubSeq(data, 1, Len(data) - 6)) >>

(***************************************************************************)
(* Witness address codec                                                   *)
(***************************************************************************)
\* DecodeTail without the length rule of witness version 0
DecodeTailAnyLength(hrp, got) ==
    IF got[1] # Some(hrp) THEN NonePair
    ELSE LET data    == got[2].val
             decoded == convertbits(SubSeq(data, 2, Len(data)), 5, 8, FALSE)
         IN  IF decoded = None \/ Len(decoded.val) < 2 \/ Len(decoded.val) > 40
             THEN NonePair
             ELSE IF data[1] > 16 THEN NonePair
             ELSE << Some(data[1]), decoded >>

\* The body of decode after `hrpgot, data = bech32_decode(addr)`, with got the
\* pair bech32_decode returned: (None, None), or (Some(witver), Some(witprog)).
\* hrp is a str, so that `assert data is not None` holds whenever it is reached.
DecodeTail(hrp, got) ==
    IF got[1] # Some(hrp) THEN NonePair
    ELSE LET data    == got[2].val
             decoded == convertbits(SubSeq(data, 2, Len(data)), 5, 8, FALSE)
         IN  IF decoded = None \/ Len(decoded.val) < 2 \/ Len(decoded.val) > 40
             THEN NonePair
             ELSE IF data[1] > 16 THEN NonePair
             ELSE IF data[1] = 0 /\ Len(decoded.val) # 20 /\ Len(decoded.val) # 32
             THEN NonePair
             ELSE << Some(data[1]), decoded >>

decode(hrp, addr) == DecodeTail(hrp, bech32_decode(addr))

\* None, Some(str), or Raise(..) when bech32_encode raises
encode(hrp, witver, witprog) ==
    LET five_bit_witprog == convertbits(witprog, 8, 5, TRUE)
    IN  IF five_bit_witprog = None THEN None
        ELSE LET ret == bech32_encode(hrp, << witver >> \o five_bit_witprog.val)
             IN  IF ret.tag = "raise" THEN ret
                 ELSE IF decode(hrp, ret.val) = NonePair THEN None
                 ELSE ret

(***************************************************************************)
(* The calls.  The functions are pure and keep no state: a behaviour is    *)
(* one run of a caller, which draws its arguments (the initial state),     *)
(* calls the function fn on them, and then hands what fn returned to the   *)
(* inverse function.  The state is the arguments, the last call made, the  *)
(* locals it is observed through and what the calls returned.              *)
(***************************************************************************)
VARIABLES
    fn,       \* the function the run calls first
    op,       \* the function called last, "init" before the first call
    hrp,      \* the hrp argument of encode, bech32_encode, bech32_create_checksum
    witver,   \* encode's witver
    witprog,  \* encode's witprog
    data,     \* the data argument of bech32_encode, of the checksum functions, of convertbits
    enc,      \* what encode or bech32_encode returned
    dhrp,     \* decode's hrp argument
    addr,     \* decode's addr argument
    got,      \* decode's locals (hrpgot, data), as bech32_decode returned them
    ret       \* what the last decode, convertbits or checksum call returned

vars == << fn, op, hrp, witver, witprog, data, enc, dhrp, addr, got, ret >>

\* No call of the kind made yet
NotCalled == [tag |-> "not called"]

\* The state before the first call, the arguments not yet drawn
NoCall ==
    /\ op = "init"
    /\ enc = NotCalled
    /\ dhrp = << >>
    /\ addr = << >>
    /\ got = NotCalled
    /\ ret = NotCalled

(***************************************************************************)
(* Arguments                                                               *)
(***************************************************************************)
\* All sequences over S of length 0..n
SeqsUpTo(S, n) == UNION {[1..k -> S] : k \in 0..n}

Zeros(n) == [i \in 1..n |-> 0]

\* n bytes, all different in their low bits
Prog(n) == [i \in 1..n |-> (37 * i + 11) % 256]

\* An hrp of n lower-case characters
LongHrp(n) == [i \in 1..n |-> CHARSET[(i % 32) + 1]]

ShortHRPs == { << "b", "c" >>, << "2" >>, << "a", "1" >>, << "B", "C" >> }

\* The longest hrp bech32_decode accepts, and the shortest it rejects
LongHRPs == { LongHrp(83), LongHrp(84) }

HRPs == ShortHRPs \cup LongHRPs

WitVers == { 0, 15, 16, 17, 32 }

WitProgs ==
    { Zeros(20), << 60, 84 >>, Prog(32), Prog(40),
      << 7 >>, Prog(21), Prog(41), << 256, 0 >> }

\* The data of bech32_encode calls that bypass encode's checks: no data at
\* all, version 0 with 21 bytes, version 17, 41 bytes, and a last symbol that
\* leaves non-zero padding bits.
DataSeqs ==
    { << >>,
      << 0 >> \o convertbits(Prog(21), 8, 5, TRUE).val,
      << 17 >> \o convertbits(Zeros(20), 8, 5, TRUE).val,
      << 1 >> \o convertbits(Prog(41), 8, 5, TRUE).val,
      << 1, 31, 31, 31, 31 >> }

\* The characters a corrupted address gets in place of one of its own
ReplChars == { "q", "p", "Q", "1", "b", " " }

\* s with its i-th character (1-based) replaced by c
ReplaceAt(s, i, c) == [s EXCEPT ![i] = c]

(***************************************************************************)
(* Witness address codec runs                                              *)
(***************************************************************************)
Init ==
    /\ NoCall
    /\ \/ /\ fn = "encode"
          /\ hrp \in ShortHRPs
          /\ witver \in WitVers
          /\ witprog \in WitProgs
          /\ data = << >>
       \/ /\ fn = "encode"
          /\ hrp \in LongHRPs
          /\ witver \in {15, 16}
          /\ witprog = << 60, 84 >>
          /\ data = << >>
       \/ /\ fn = "bech32_encode"
          /\ hrp \in HRPs
          /\ witver = 0
          /\ witprog = << >>
          /\ data \in DataSeqs

EncodeCall ==
    /\ op = "init"
    /\ fn = "encode"
    /\ op' = "encode"
    /\ enc' = encode(hrp, witver, witprog)
    /\ UNCHANGED << fn, hrp, witver, witprog, data, dhrp, addr, got, ret >>

Bech32EncodeCall ==
    /\ op = "init"
    /\ fn = "bech32_encode"
    /\ op' = "bech32_encode"
    /\ enc' = bech32_encode(hrp, data)
    /\ UNCHANGED << fn, hrp, witver, witprog, data, dhrp, addr, got, ret >>

\* decode(h, a): bech32_decode(a), then the rest of decode
DecodeCall(h, a) ==
    /\ op' = "decode"
    /\ dhrp' = h
    /\ addr' = a
    /\ got' = bech32_decode(a)
    /\ ret' = DecodeTail(h, got')
    /\ UNCHANGED << fn, hrp, witver, witprog, data, enc >>

\* The string returned is decoded as it is, under the hrp it was made with
\* or the lower-case form of that hrp
DecodeEncoded ==
    /\ op \in {"encode", "bech32_encode"}
    /\ enc.tag = "ok"
    /\ \E h \in {hrp, Lower(hrp)} : DecodeCall(h, enc.val)

\* ... in upper case
DecodeUpper ==
    /\ op \in {"encode", "bech32_encode"}
    /\ enc.tag = "ok"
    /\ \E h \in {hrp, Lower(hrp)} : DecodeCall(h, Upper(enc.val))

\* ... with one character of encode's string replaced by a different one
DecodeReplaced ==
    /\ op = "encode"
    /\ enc.tag = "ok"
    /\ \E i \in 1..Len(enc.val) : \E c \in ReplChars \ {enc.val[i]} :
            DecodeCall(hrp, ReplaceAt(enc.val, i, c))

Next ==
    \/ EncodeCall
    \/ Bech32EncodeCall
    \/ DecodeEncoded
    \/ DecodeUpper
    \/ DecodeReplaced

Spec == Init /\ [][Next]_vars

(***************************************************************************)
(* Bit converter runs: bytes are converted 8 -> 5 with padding and back    *)
(* 5 -> 8 without, or 5-bit symbols are converted 5 -> 8 without padding.  *)
(***************************************************************************)
MaxBytes == 5

MaxSyms == 8

MaxBadSyms == 2

ByteVals == { 0, 1, 170, 255 }

SymVals == { 0, 17, 31 }

\* Values that are no 5-bit symbols
BadSymVals == { -1, 32 }

InitBits ==
    /\ NoCall
    /\ hrp = << >>
    /\ witver = 0
    /\ witprog = << >>
    /\ \/ /\ fn = "convertbits(8,5,True)"
          /\ data \in SeqsUpTo(ByteVals, MaxBytes)
       \/ /\ fn = "convertbits(5,8,False)"
          /\ data \in SeqsUpTo(SymVals, MaxSyms)
                        \cup SeqsUpTo(SymVals \cup BadSymVals, MaxBadSyms)

ConvertPadCall ==
    /\ op = "init"
    /\ fn = "convertbits(8,5,True)"
    /\ op' = "convertbits(8,5,True)"
    /\ ret' = convertbits(data, 8, 5, TRUE)
    /\ UNCHANGED << fn, hrp, witver, witprog, data, enc, dhrp, addr, got >>

\* The symbols ConvertPadCall returned go back to bytes; witprog keeps the
\* bytes they were made from.
ConvertBackCall ==
    /\ op = "convertbits(8,5,True)"
    /\ ret.tag = "ok"
    /\ op' = "convertbits(5,8,False)"
    /\ witprog' = data
    /\ data' = ret.val
    /\ ret' = convertbits(ret.val, 5, 8, FALSE)
    /\ UNCHANGED << fn, hrp, witver, enc, dhrp, addr, got >>

ConvertStrictCall ==
    /\ op = "init"
    /\ fn = "convertbits(5,8,False)"
    /\ op' = "convertbits(5,8,False)"
    /\ ret' = convertbits(data, 5, 8, FALSE)
    /\ UNCHANGED << fn, hrp, witver, witprog, data, enc, dhrp, addr, got >>

NextBits ==
    \/ ConvertPadCall
    \/ ConvertBackCall
    \/ ConvertStrictCall

SpecBits == InitBits /\ [][NextBits]_vars

(***************************************************************************)
(* Checksum runs: a checksum is created and then verified.                 *)
(***************************************************************************)
MaxData == 4

ChkHRPs == { << "b", "c" >>, << "!" >>, << "~", "A" >>, << "a", "1" >> }

ChkVals == { 0, 1, 31 }

InitChecksum ==
    /\ NoCall
    /\ fn = "bech32_create_checksum"
    /\ hrp \in ChkHRPs
    /\ witver = 0
    /\ witprog = << >>
    /\ data \in SeqsUpTo(ChkVals, MaxData)

CreateChecksumCall ==
    /\ op = "init"
    /\ fn = "bech32_create_checksum"
    /\ op' = "bech32_create_checksum"
    /\ ret' = bech32_create_checksum(hrp, data)
    /\ UNCHANGED << fn, hrp, witver, witprog, data, enc, dhrp, addr, got >>

\* The data with the checksum just created appended is verified
VerifyChecksumCall ==
    /\ op = "bech32_create_checksum"
    /\ op' = "bech32_verify_checksum"
    /\ data' = data \o ret
    /\ ret' = bech32_verify_checksum(hrp, data \o ret)
    /\ UNCHANGED << fn, hrp, witver, witprog, enc, dhrp, addr, got >>

NextChecksum ==
    \/ CreateChecksumCall
    \/ VerifyChecksumCall

SpecChecksum == InitChecksum /\ [][NextChecksum]_vars

(***************************************************************************)
(* Properties                                                              *)
(***************************************************************************)
HasUpperLetter(s) == \E i \in 1..Len(s) : Ord(s[i]) >= 65 /\ Ord(s[i]) <= 90

HasLowerLetter(s) == \E i \in 1..Len(s) : Ord(s[i]) >= 97 /\ Ord(s[i]) <= 122

\* An hrp as the data model admits it: not empty, printable, of one case
PrintableOneCase(h) ==
    /\ Len(h) >= 1
    /\ \A i \in 1..Len(h) : Ord(h[i]) >= 33 /\ Ord(h[i]) <= 126
    /\ ~(HasUpperLetter(h) /\ HasLowerLetter(h))

\* A witness version and program as the data model admits them
ValidWitness(v, p) ==
    /\ v >= 0 /\ v <= 16
    /\ Len(p) >= 2 /\ Len(p) <= 40
    /\ \A i \in 1..Len(p) : p[i] >= 0 /\ p[i] <= 255
    /\ v = 0 => Len(p) \in {20, 32}

\* The run encoded (hrp, witver, witprog) and decoded the string it got
DecodedOwn ==
    /\ fn = "encode"
    /\ op = "decode"
    /\ dhrp = hrp
    /\ addr = enc.val

\* t is s with exactly one character replaced by a different one
OneCharReplaced(s, t) ==
    /\ Len(s) = Len(t)
    /\ Cardinality({i \in 1..Len(s) : s[i] # t[i]}) = 1

\* C1 as stated: for every hrp that is not empty, printable and entirely
\* lower case or entirely upper case, and every valid witness version and
\* program, encode returns a string and decode gives the version and program
\* back.
C1_RoundTripAnyHrp ==
    (fn = "encode" /\ PrintableOneCase(hrp) /\ ValidWitness(witver, witprog))
        => /\ op = "encode" => enc.tag = "ok"
           /\ DecodedOwn => ret = << Some(witver), Some(witprog) >>

\* C1 amended: the round trip holds for every hrp of 1 to 83 printable
\* characters none of which is an upper-case letter.
C1_RoundTrip ==
    (/\ fn = "encode"
     /\ PrintableOneCase(hrp) /\ ~HasUpperLetter(hrp) /\ Len(hrp) <= 83
     /\ ValidWitness(witver, witprog))
        => /\ op = "encode" => enc.tag = "ok"
           /\ DecodedOwn => ret = << Some(witver), Some(witprog) >>

C1_Witness ==
    /\ DecodedOwn
    /\ Len(hrp) = 83
    /\ witver = 16
    /\ ret = << Some(witver), Some(witprog) >>

\* C2 as stated: a string encode returned, with any one character replaced
\* by any different character, fails to decode.
C2_AnyReplacementFails ==
    (fn = "encode" /\ op = "decode" /\ dhrp = hrp /\ OneCharReplaced(enc.val, addr))
        => ret = NonePair

\* C2 amended: a string encode returned, with one character replaced by a
\* different one, fails to decode, unless the new string has no lower-case
\* letter and is the old one in upper case: that one decodes to the version
\* and program encoded.
C2_ReplacementFails ==
    (fn = "encode" /\ op = "decode" /\ dhrp = hrp /\ OneCharReplaced(enc.val, addr))
        => IF Lower(addr) = enc.val /\ ~HasLowerLetter(addr)
           THEN ret = << Some(witver), Some(witprog) >>
           ELSE ret = NonePair

\* A data character was replaced by another character of the alphabet, so
\* that only the checksum tells the string from a valid one.
C2_Witness ==
    /\ fn = "encode" /\ op = "decode" /\ dhrp = hrp
    /\ OneCharReplaced(enc.val, addr)
    /\ \E i \in (Len(hrp) + 2)..Len(addr) :
            addr[i] # enc.val[i] /\ InCharset(addr[i])
    /\ ret = NonePair

\* C3: whatever decode returns other than (None, None) is a witness version
\* in 0..16 and a program of 2..40 bytes, of 20 or 32 bytes for version 0.
C3_DecodeValid ==
    (op = "decode" /\ ret # NonePair)
        => /\ ret[1].val >= 0 /\ ret[1].val <= 16
           /\ Len(ret[2].val) >= 2 /\ Len(ret[2].val) <= 40
           /\ \A i \in 1..Len(ret[2].val) : ret[2].val[i] >= 0 /\ ret[2].val[i] <= 255
           /\ ret[1].val = 0 => Len(ret[2].val) \in {20, 32}

C3_Witness ==
    /\ op = "decode"
    /\ ret # NonePair
    /\ ret[1].val = 0
    /\ Len(ret[2].val) = 32

\* "bc1", then n times "q", then tail
Bc1q(n, tail) == << "b", "c", "1" >> \o [i \in 1..n |-> "q"] \o tail

EncodedBcZeros ==
    /\ op = "encode"
    /\ hrp = << "b", "c" >>
    /\ witver = 0
    /\ witprog = Zeros(20)

\* C4 as stated: encode("bc", 0, 20 zero bytes) returns
\* "bc1qqqqqqqqqqqqqqqqqqqqqqqqqqqqqqqqqqqqqc8gma6".
C4_VectorAsStated ==
    EncodedBcZeros => enc = Some(Bc1q(37, << "c", "8", "g", "m", "a", "6" >>))

\* C4 amended: encode("bc", 0, 20 zero bytes) returns
\* "bc1qqqqqqqqqqqqqqqqqqqqqqqqqqqqqqqqq9e75rs".
C4_Vector ==
    EncodedBcZeros => enc = Some(Bc1q(33, << "9", "e", "7", "5", "r", "s" >>))

C4_Witness == EncodedBcZeros /\ enc.tag = "ok"

\* C5: convertbits(bytes, 8, 5, True) is a list of 5-bit values, and
\* converting it back with convertbits(.., 5, 8, False) gives bytes again.
C5_BitsRoundTrip ==
    /\ op = "convertbits(8,5,True)"
        => /\ ret.tag = "ok"
           /\ \A k \in 1..Len(ret.val) : ret.val[k] >= 0 /\ ret.val[k] <= 31
    /\ (op = "convertbits(5,8,False)" /\ fn = "convertbits(8,5,True)")
        => ret = Some(witprog)

\* Three bytes: 24 bits, padded with one zero bit to five symbols
C5_Witness ==
    /\ op = "convertbits(5,8,False)"
    /\ fn = "convertbits(8,5,True)"
    /\ Len(witprog) = 3
    /\ witprog[3] = 255
    /\ Len(data) = 5
    /\ ret = Some(witprog)

\* C6 as stated: every string bech32_decode accepts has at most 90 characters.
C6_AtMost90 ==
    (op = "decode" /\ got # NonePair) => Len(addr) <= 90

\* C6 amended: in every string bech32_decode accepts, the hrp has 1 to 83
\* characters, the separator "1" follows it and at least 6 characters follow
\* the separator; the length of the string is not bounded.
C6_SeparatorBound ==
    (op = "decode" /\ got # NonePair)
        => /\ Len(got[1].val) >= 1
           /\ Len(got[1].val) <= 83
           /\ Len(addr) >= Len(got[1].val) + 7
           /\ addr[Len(got[1].val) + 1] = "1"
           /\ Len(got[2].val) = Len(addr) - Len(got[1].val) - 7

\* An accepted string of more than 90 characters
C6_Witness ==
    /\ op = "decode"
    /\ got # NonePair
    /\ Len(got[1].val) = 83
    /\ Len(addr) > 90

\* C7: encode returns None, and raises nothing, for a witness version or
\* program that is not valid; every string it returns decodes.
C7_EncodeFailureIsNone ==
    /\ (op = "encode" /\ ~ValidWitness(witver, witprog)) => enc = None
    /\ DecodedOwn => ret # NonePair

\* C8: a string with an upper-case and a lower-case letter is rejected by
\* bech32_decode, hence by decode.
C8_MixedCaseFails ==
    (op = "decode" /\ HasUpperLetter(addr) /\ HasLowerLetter(addr))
        => got = NonePair /\ ret = NonePair

\* A mixed-case string whose lower-case form is the valid string encode made
C8_Witness ==
    /\ fn = "encode" /\ op = "decode" /\ dhrp = hrp
    /\ HasUpperLetter(addr) /\ HasLowerLetter(addr)
    /\ Lower(addr) = enc.val
    /\ got = NonePair

\* The j-th bit (1-based, most significant first) of the 5-bit symbols of d
SymBit(d, j) == (d[(j - 1) \div 5 + 1] \div 2^(4 - ((j - 1) % 5))) % 2

\* The k-th group (1-based) of 8 bits of the symbols of d, as a number
BitGroup(d, k) ==
    LET b(n) == SymBit(d, 8 * (k - 1) + n)
    IN  128 * b(1) + 64 * b(2) + 32 * b(3) + 16 * b(4) + 8 * b(5) + 4 * b(6) + 2 * b(7) + b(8)

Leftover(d) == (5 * Len(d)) % 8

LeftoverZero(d) == \A j \in (5 * Len(d) - Leftover(d) + 1)..(5 * Len(d)) : SymBit(d, j) = 0

\* C9: convertbits(data, 5, 8, False) is None for data holding a value that
\* is no 5-bit symbol; for 5-bit symbols it is None exactly if 5 or more bits
\* are left over or the bits left over are not all zero, and otherwise it is
\* the floor(5 * len(data) / 8) groups of 8 bits of the symbols' bits.
C9_StrictConversion ==
    op = "convertbits(5,8,False)"
        => IF \E k \in 1..Len(data) : data[k] < 0 \/ data[k] >= 32
           THEN ret = None
           ELSE /\ ret = None <=> (Leftover(data) >= 5 \/ ~LeftoverZero(data))
                /\ ret # None
                    => ret = Some([k \in 1..((5 * Len(data)) \div 8) |-> BitGroup(data, k)])

\* Seven symbols: four bytes and three zero bits left over
C9_Witness ==
    /\ op = "convertbits(5,8,False)"
    /\ fn = "convertbits(5,8,False)"
    /\ Len(data) = 7
    /\ data[1] = 17
    /\ ret.tag = "ok"
    /\ Len(ret.val) = 4

\* The accumulator of bech32_polymod(values) is below 2^30 after every
\* iteration: after k iterations it is bech32_polymod of the first k values.
AccBelow2p30(values) ==
    \A k \in 0..Len(values) : bech32_polymod(SubSeq(values, 1, k)) < 2^30

\* C10: bech32_create_checksum returns six 5-bit values, the data with them
\* appended verifies (the residue is 1), and the accumulator stays below 2^30.
C10_ChecksumConsistent ==
    /\ op = "bech32_create_checksum"
        => /\ Len(ret) = 6
           /\ \A k \in 1..6 : ret[k] >= 0 /\ ret[k] <= 31
           /\ AccBelow2p30(bech32_hrp_expand(hrp) \o data \o << 0, 0, 0, 0, 0, 0 >>)
    /\ op = "bech32_verify_checksum"
        => /\ ret = TRUE
           /\ bech32_polymod(bech32_hrp_expand(hrp) \o data) = 1
           /\ AccBelow2p30(bech32_hrp_expand(hrp) \o data)

C10_Witness ==
    /\ op = "bech32_verify_checksum"
    /\ hrp = << "~", "A" >>
    /\ Len(data) = MaxData + 6
    /\ data[1] = 31
    /\ ret = TRUE

====
